---- MODULE Spec2Model ----
(***************************************************************************)
(* A model of the renderer core of wgpu-learning: State (src/src/state.rs) *)
(* with its surface configuration, depth texture, camera, instance grid,   *)
(* loaded model and the per-frame command sequence of State::render.       *)
(*                                                                         *)
(* Two specifications:                                                     *)
(*   Spec      the constructed State under resize and render calls;        *)
(*   SpecGrid  the instance-grid construction of State::new for a range of *)
(*             rows-per-side and spacings.                                 *)
(*                                                                         *)
(* Numbers.  Grid positions are multiples of one half (x - N/2 in f32, an  *)
(* exact value for the sizes used), so a position is stored DOUBLED, as a  *)
(* triple of integers.  The camera aspect width/height is stored as the    *)
(* fraction in lowest terms.  A unit direction (normalize) is stored as    *)
(* the primitive integer vector with that direction.                       *)
(***************************************************************************)
EXTENDS Integers, Sequences, FiniteSets, TLC

VARIABLES
    size,           \* State.size (state.rs 36): <<width, height>>
    config,         \* State.config (state.rs 35): the stored SurfaceConfiguration
    surface,        \* State.surface (state.rs 32): the configuration last
                    \* applied with surface.configure
    depth_texture,  \* State.depth_texture (state.rs 52): [width, height, format]
    camera,         \* State.camera (state.rs 45): [aspect, eye]
    camera_controller, \* State.camera_controller (state.rs 49): the key flags
    camera_uniform, \* State.camera_uniform (state.rs 46): [view_proj]
    camera_buffer,  \* State.camera_buffer (state.rs 47): the uniform it holds
    instances,      \* State.instances (state.rs 50): Seq of [position, rotation]
    obj_model,      \* State.obj_model (state.rs 53): [meshes, materials]
    grid,           \* the grid being built in State::new: [rows, spacing, built]
    calls,          \* the GPU calls made by the last handler, in order
    lastCall,       \* the last handler called, with its inputs
    result,         \* what the last handler returned: render's Result, else "none"
    frame_index,    \* the swapchain image (of two) the next acquisition hands out
    lostStreak      \* number of consecutive SurfaceLost acquisitions (history)

cameraVars == <<camera, camera_controller, camera_uniform, camera_buffer>>

vars == <<size, config, surface, depth_texture, cameraVars, instances, obj_model,
          grid, calls, lastCall, result, frame_index, lostStreak>>

(***************************************************************************)
(* Bounds of the model.                                                    *)
(***************************************************************************)
MaxDim == 2         \* window widths and heights range over 0..MaxDim
MaxMeshes == 2      \* a loaded model has 0..MaxMeshes meshes
MaxStreak == 3      \* the SurfaceLost streak is counted up to here
RenderRows == 2     \* Spec: rows per side of the State's instance grid
MaxMove == 1        \* the eye stays within MaxMove steps of where it started
MaxRow == 10        \* SpecGrid: rows per side range over 0..MaxRow
MaxSpace == 6       \* SpecGrid: spacings range over 1..MaxSpace

(***************************************************************************)
(* Program constants.                                                      *)
(***************************************************************************)
NUM_INSTANCES_PER_ROW == 10
SPACE_BETWEEN == 3
F32_SIZE == 4
U16_SIZE == 2
U32_SIZE == 4

(***************************************************************************)
(* Arithmetic helpers.                                                     *)
(***************************************************************************)
Abs(i) == IF i < 0 THEN -i ELSE i

RECURSIVE Gcd(_, _)
Gcd(a, b) == IF b = 0 THEN a ELSE Gcd(b, a % b)

\* w as f32 / h as f32, as the fraction in lowest terms (h > 0, w > 0)
Ratio(w, h) == LET g == Gcd(w, h) IN <<w \div g, h \div g>>

(***************************************************************************)
(* The instance grid (State::new).                                         *)
(***************************************************************************)
ZeroVector == <<0, 0, 0>>

\* cgmath Zero::is_zero on a Vector3
IsZero(v) == v = ZeroVector

\* cgmath InnerSpace::normalize: the unit vector of v's direction; of the
\* zero vector it is 0/0 in every component (NaN)
Normalize(v) ==
    IF v = ZeroVector
    THEN [nan |-> TRUE, dir |-> ZeroVector]
    ELSE LET g == Gcd(Gcd(Abs(v[1]), Abs(v[2])), Abs(v[3]))
         IN [nan |-> FALSE, dir |-> <<v[1] \div g, v[2] \div g, v[3] \div g>>]

UnitZ == [nan |-> FALSE, dir |-> <<0, 0, 1>>]

\* cgmath Quaternion::from_axis_angle(axis, Deg(deg)):
\* scalar cos(deg/2), vector axis * sin(deg/2).  The vector part is zero
\* when the angle is zero, whatever the axis is.
FromAxisAngle(axis, deg) ==
    IF axis.nan
    THEN [angle |-> deg, axis |-> ZeroVector, nan |-> TRUE]
    ELSE [angle |-> deg, axis |-> IF deg = 0 THEN ZeroVector ELSE axis.dir,
          nan |-> FALSE]

\* the quaternion 1 + 0i + 0j + 0k
IdentityRotation == [angle |-> 0, axis |-> ZeroVector, nan |-> FALSE]

\* the closure body of the grid iterator for cell (x, z): the DOUBLED
\* position 2 * s * (x - n / 2) and the rotation chosen for it
MakeInstanceAlwaysRotated(n, s, x, z) ==
    LET position == <<s * (2 * x - n), 0, s * (2 * z - n)>>
    IN [position |-> position,
        rotation |-> FromAxisAngle(Normalize(position), 45)]

MakeInstance(n, s, x, z) ==
    LET position == <<s * (2 * x - n), 0, s * (2 * z - n)>>
        rotation == IF IsZero(position)
                    THEN FromAxisAngle(UnitZ, 0)
                    ELSE FromAxisAngle(Normalize(position), 45)
    IN [position |-> position, rotation |-> rotation]

\* (0..n).flat_map(|z| (0..n).map(move |x| ...)).collect(): z is the outer
\* loop, x the inner one; list index (0-based) z * n + x
BuildInstancesColumnMajor(n, s) ==
    [i \in 1..(n * n) |-> MakeInstance(n, s, (i - 1) \div n, (i - 1) % n)]

BuildInstances(n, s) ==
    [i \in 1..(n * n) |-> MakeInstance(n, s, (i - 1) % n, (i - 1) \div n)]

(***************************************************************************)
(* Buffers.  A buffer is the byte image of a slice: the element type that  *)
(* was cast into it, the size of one element, the number of elements, and  *)
(* (for index data) the values.                                            *)
(***************************************************************************)
Buffer(id, contents, elem, len, data) ==
    [id |-> id, contents |-> contents, elem |-> elem, len |-> len,
     data |-> data]

NoResource == <<"none", 0>>

NoBuffer == Buffer(NoResource, "none", 0, 0, <<>>)

BufferBytes(b) == b.elem * b.len

\* size_of::<vertex::Vertex>(): position [f32; 3], tex_coords [f32; 2]
VertexSize == F32_SIZE * (3 + 2)

\* size_of::<ModelVertex>(): position [f32; 3], tex_coords [f32; 2],
\* normal [f32; 3]
ModelVertexSize == F32_SIZE * (3 + 2 + 3)

\* ModelVertex::desc(): the layout the pipeline declares for slot 0
ModelVertexDesc ==
    [array_stride |-> ModelVertexSize, step_mode |-> "Vertex",
     contents |-> "ModelVertex",
     attributes |-> << [offset |-> 0, shader_location |-> 0, format |-> "Float32x3"],
                       [offset |-> F32_SIZE * 3, shader_location |-> 1, format |-> "Float32x2"],
                       [offset |-> F32_SIZE * 5, shader_location |-> 2, format |-> "Float32x3"] >>]

\* InstanceRaw::desc(): the layout the pipeline declares for slot 1, four
\* vec4<f32> rows per instance
InstanceRawDesc ==
    [array_stride |-> F32_SIZE * 16, step_mode |-> "Instance",
     contents |-> "InstanceRaw"]

\* VertexState.buffers of the render pipeline
PipelineBuffers == <<ModelVertexDesc, InstanceRawDesc>>

\* vertex::VERTICES has five entries A..E
NumVertices == 5

\* vertex::INDICES
INDICES == <<0, 1, 4, 1, 2, 4, 2, 3, 4>>

\* State.vertex_buffer: cast_slice(VERTICES)
vertex_buffer == Buffer(<<"vertex_buffer", 0>>, "Vertex", VertexSize, NumVertices, <<>>)

\* State.index_buffer: cast_slice(INDICES), u16 values
index_buffer == Buffer(<<"index_buffer", 0>>, "u16", U16_SIZE, Len(INDICES), INDICES)

\* State.num_indices
num_indices == Len(INDICES)

\* State.diffuse_bind_group and State.camera_bind_group
diffuse_bind_group == <<"diffuse_bind_group", 0>>
camera_bind_group == <<"camera_bind_group", 0>>

\* State.instance_buffer: one InstanceRaw per entry of the instance list
InstanceBuffer(insts) ==
    Buffer(<<"instance_buffer", 0>>, "InstanceRaw", F32_SIZE * 16, Len(insts), <<>>)

(***************************************************************************)
(* Loaded models.  Mesh i (1-based) of a model is a fan of i triangles on  *)
(* i + 2 vertices, so meshes differ in their element counts; its material  *)
(* index (0-based, as in the code) cycles through the materials.           *)
(***************************************************************************)
FanIndices(t) == [k \in 1..(3 * t) |->
                    CASE k % 3 = 1 -> 0
                      [] k % 3 = 2 -> (k + 1) \div 3
                      [] OTHER     -> (k \div 3) + 1]

Mesh(i, nMat) ==
    [name |-> i,
     vertex_buffer |-> Buffer(<<"mesh_vertex_buffer", i>>, "ModelVertex", ModelVertexSize, i + 2, <<>>),
     index_buffer |-> Buffer(<<"mesh_index_buffer", i>>, "u32", U32_SIZE, 3 * i, FanIndices(i)),
     num_elements |-> 3 * i,
     material |-> (i - 1) % nMat]

Material(m) == [name |-> m, bind_group |-> <<"material_bind_group", m>>]

\* what load_model hands back on success
Model(nMeshes, nMat) ==
    [meshes |-> [i \in 1..nMeshes |-> Mesh(i, nMat)],
     materials |-> [m \in 1..nMat |-> Material(m - 1)]]

\* models of up to MaxMeshes meshes and at least one, at most as many
\* materials as meshes
ModelShapes == { <<k, m>> \in (0..MaxMeshes) \X (1..(MaxMeshes + 1)) : m = 1 \/ m <= k }

Models == { Model(km[1], km[2]) : km \in ModelShapes }

\* obj_model before load_model has returned
NoModel == [meshes |-> <<>>, materials |-> <<>>]

(***************************************************************************)
(* GPU calls.  A call is a record of one shape; fields a call does not use *)
(* keep their defaults.  res is the buffer or bind group the call is       *)
(* given, by its id.                                                       *)
(***************************************************************************)
Cmd(op) ==
    [op |-> op, slot |-> 0, res |-> NoResource, count |-> 0, inst |-> 0,
     tex |-> 0, dims |-> <<0, 0>>]

SetVertexBuffer(slot, buf) == [Cmd("set_vertex_buffer") EXCEPT !.slot = slot, !.res = buf.id]
SetIndexBuffer(buf) == [Cmd("set_index_buffer") EXCEPT !.res = buf.id]
SetBindGroup(slot, group) == [Cmd("set_bind_group") EXCEPT !.slot = slot, !.res = group]
\* draw_indexed(0..count, 0, 0..inst)
DrawIndexed(count, inst) == [Cmd("draw_indexed") EXCEPT !.count = count, !.inst = inst]

(***************************************************************************)
(* Construction (State::new).                                              *)
(***************************************************************************)
Dims == 1..MaxDim

\* surface.get_supported_formats(&adapter)[0], fixed for a run
SurfaceFormat == "Bgra8UnormSrgb"

SurfaceConfiguration(w, h, format) ==
    [usage |-> "RENDER_ATTACHMENT", format |-> format, width |-> w,
     height |-> h, present_mode |-> "Fifo", alpha_mode |-> "Auto"]

\* Texture::create_depth_texture(device, config, label): the extent is the
\* configuration's width and height
create_depth_texture_transposed(cfg) ==
    [width |-> cfg.height, height |-> cfg.width, format |-> "Depth32Float"]

create_depth_texture(cfg) ==
    [width |-> cfg.width, height |-> cfg.height, format |-> "Depth32Float"]

\* Camera { eye: (0.0, 1.0, 2.0), aspect: config.width as f32 /
\* config.height as f32, .. }.  The eye is stored as its displacement from
\* (0, 1, 2) in steps of the controller's speed, <<forward, right>>; target,
\* up, fovy, znear and zfar never change.
NewCamera(cfg) == [aspect |-> Ratio(cfg.width, cfg.height), eye |-> <<0, 0>>]

\* CameraController::new(0.1): no key is held
NewCameraController ==
    [forward |-> FALSE, backward |-> FALSE, left |-> FALSE, right |-> FALSE]

\* CameraUniform::update_view_proj(&camera): perspective(fovy, aspect, znear,
\* zfar) * look_at(eye, target, up), kept as the two inputs that vary
UpdateViewProj(cam) == [view_proj |-> [eye |-> cam.eye, aspect |-> cam.aspect]]

SurfaceConfigure(cfg) == [Cmd("surface_configure") EXCEPT !.dims = <<cfg.width, cfg.height>>]
CreateDepthTexture(cfg) == [Cmd("create_depth_texture") EXCEPT !.dims = <<cfg.width, cfg.height>>]

NoCall == [op |-> "new", w |-> 0, h |-> 0, acquire |-> "none"]

Call(op) == [NoCall EXCEPT !.op = op]

\* the part of State::new before the instance grid is built: the surface is
\* configured, the camera and the depth texture exist
NewUpToGrid(w, h) ==
    LET cfg == SurfaceConfiguration(w, h, SurfaceFormat)
    IN /\ size = <<w, h>>
       /\ config = cfg
       /\ surface = cfg
       /\ camera = NewCamera(cfg)
       /\ camera_controller = NewCameraController
       /\ camera_uniform = UpdateViewProj(NewCamera(cfg))
       /\ camera_buffer = UpdateViewProj(NewCamera(cfg))
       /\ depth_texture = create_depth_texture(cfg)
       /\ calls = <<SurfaceConfigure(cfg), CreateDepthTexture(cfg)>>
       /\ lastCall = NoCall
       /\ result = "none"
       /\ frame_index = 0
       /\ lostStreak = 0

\* the State that State::new returns, for any window size and loaded
\* model.  Spec keeps the grid at RenderRows rows per side where the program
\* has NUM_INSTANCES_PER_ROW: resize and render read the list's length only,
\* and SpecGrid covers the program's own grid.
Init ==
    /\ \E w \in Dims, h \in Dims : NewUpToGrid(w, h)
    /\ grid = [rows |-> RenderRows, spacing |-> SPACE_BETWEEN, built |-> TRUE]
    /\ instances = BuildInstances(RenderRows, SPACE_BETWEEN)
    /\ obj_model \in Models

(***************************************************************************)
(* State::resize.                                                          *)
(***************************************************************************)
Running == grid.built /\ result # "panic"

ResizeUnguarded(w, h) ==
    /\ Running
    /\ lastCall' = [op |-> "resize", w |-> w, h |-> h, acquire |-> "none"]
    /\ LET cfg == [config EXCEPT !.width = w, !.height = h]
       IN /\ size' = <<w, h>>
          /\ config' = cfg
          /\ depth_texture' = create_depth_texture(cfg)
          /\ surface' = cfg
          /\ calls' = <<CreateDepthTexture(cfg), SurfaceConfigure(cfg)>>
    /\ result' = "none"
    /\ UNCHANGED <<cameraVars, instances, obj_model, grid, frame_index, lostStreak>>

ResizeStaleDepth(w, h) ==
    /\ Running
    /\ lastCall' = [op |-> "resize", w |-> w, h |-> h, acquire |-> "none"]
    /\ IF w > 0 /\ h > 0
       THEN LET cfg == [config EXCEPT !.width = w, !.height = h]
            IN /\ size' = <<w, h>>
               /\ config' = cfg
               /\ surface' = cfg
               /\ calls' = <<SurfaceConfigure(cfg)>>
               /\ UNCHANGED depth_texture
       ELSE /\ calls' = <<>>
            /\ UNCHANGED <<size, config, depth_texture, surface>>
    /\ result' = "none"
    /\ UNCHANGED <<cameraVars, instances, obj_model, grid, frame_index, lostStreak>>

ResizeConfigureFirst(w, h) ==
    /\ Running
    /\ lastCall' = [op |-> "resize", w |-> w, h |-> h, acquire |-> "none"]
    /\ IF w > 0 /\ h > 0
       THEN LET cfg == [config EXCEPT !.width = w, !.height = h]
            IN /\ size' = <<w, h>>
               /\ config' = cfg
               /\ depth_texture' = create_depth_texture(cfg)
               /\ surface' = cfg
               /\ calls' = <<SurfaceConfigure(cfg), CreateDepthTexture(cfg)>>
       ELSE /\ calls' = <<>>
            /\ UNCHANGED <<size, config, depth_texture, surface>>
    /\ result' = "none"
    /\ UNCHANGED <<cameraVars, instances, obj_model, grid, frame_index, lostStreak>>

Resize(w, h) ==
    /\ Running
    /\ lastCall' = [op |-> "resize", w |-> w, h |-> h, acquire |-> "none"]
    /\ IF w > 0 /\ h > 0
       THEN LET cfg == [config EXCEPT !.width = w, !.height = h]
            IN /\ size' = <<w, h>>
               /\ config' = cfg
               /\ depth_texture' = create_depth_texture(cfg)
               /\ surface' = cfg
               /\ calls' = <<CreateDepthTexture(cfg), SurfaceConfigure(cfg)>>
       ELSE /\ calls' = <<>>
            /\ UNCHANGED <<size, config, depth_texture, surface>>
    /\ result' = "none"
    /\ UNCHANGED <<cameraVars, instances, obj_model, grid, frame_index, lostStreak>>

(***************************************************************************)
(* State::render.                                                          *)
(***************************************************************************)
\* what surface.get_current_texture() can return
AcquireResults == {"Ok", "Timeout", "Outdated", "Lost", "OutOfMemory"}

GetCurrentTexture(tex) == [Cmd("get_current_texture") EXCEPT !.tex = tex]
CreateView(tex) == [Cmd("create_view") EXCEPT !.tex = tex]
\* the pass's colour attachment is the view of surface texture tex, its
\* depth attachment the view of the depth texture of extent dims
BeginRenderPass(tex, depth) ==
    [Cmd("begin_render_pass") EXCEPT !.tex = tex, !.dims = <<depth.width, depth.height>>]
Present(tex) == [Cmd("present") EXCEPT !.tex = tex]

\* DrawModel::draw_mesh_instanced for one mesh of the model
DrawMeshInstanced(mesh, material, inst) ==
    << SetVertexBuffer(0, mesh.vertex_buffer),
       SetIndexBuffer(mesh.index_buffer),
       SetBindGroup(0, material.bind_group),
       SetBindGroup(1, camera_bind_group),
       DrawIndexed(mesh.num_elements, inst) >>

\* DrawModel::draw_model_instanced: every mesh of the model, in order
RECURSIVE DrawMeshesFrom(_, _, _)
DrawMeshesFrom(model, k, inst) ==
    IF k > Len(model.meshes)
    THEN <<>>
    ELSE DrawMeshInstanced(model.meshes[k],
                           model.materials[model.meshes[k].material + 1], inst)
         \o DrawMeshesFrom(model, k + 1, inst)

DrawModelInstanced(model, inst) == DrawMeshesFrom(model, 1, inst)

\* the calls of the render pass up to and including the draw of the
\* State's own vertex and index buffers
PassPrefix(tex, depth, insts) ==
    << BeginRenderPass(tex, depth),
       Cmd("set_pipeline"),
       SetVertexBuffer(0, vertex_buffer),
       SetBindGroup(0, diffuse_bind_group),
       SetBindGroup(1, camera_bind_group),
       SetVertexBuffer(0, vertex_buffer),
       SetVertexBuffer(1, InstanceBuffer(insts)),
       SetIndexBuffer(index_buffer),
       DrawIndexed(num_indices, Len(insts)) >>

\* a frame that presents the surface texture before the command buffer is
\* submitted
FrameCallsPresentFirst(tex, depth, insts, model) ==
    <<GetCurrentTexture(tex), CreateView(tex), Cmd("create_command_encoder")>>
    \o PassPrefix(tex, depth, insts)
    \o IF Len(model.meshes) = 0
       THEN <<>>
       ELSE DrawModelInstanced(model, Len(insts))
            \o <<Cmd("end_render_pass"), Cmd("finish"), Present(tex), Cmd("submit")>>

\* the calls of one render call whose acquisition succeeded with surface
\* texture tex; indexing meshes[0] of a model without meshes panics, and
\* nothing after it runs
FrameCalls(tex, depth, insts, model) ==
    <<GetCurrentTexture(tex), CreateView(tex), Cmd("create_command_encoder")>>
    \o PassPrefix(tex, depth, insts)
    \o IF Len(model.meshes) = 0
       THEN <<>>
       ELSE DrawModelInstanced(model, Len(insts))
            \o <<Cmd("end_render_pass"), Cmd("finish"), Cmd("submit"), Present(tex)>>

FrameResult(model) == IF Len(model.meshes) = 0 THEN "panic" ELSE "Ok"

CountStreak(acq) ==
    IF acq = "Lost"
    THEN (IF lostStreak < MaxStreak THEN lostStreak + 1 ELSE MaxStreak)
    ELSE 0

\* a render that handles SurfaceLost itself: reconfigures the surface and
\* reports success
RenderSwallowLost(acq) ==
    /\ Running
    /\ lastCall' = [op |-> "render", w |-> 0, h |-> 0, acquire |-> acq]
    /\ lostStreak' = CountStreak(acq)
    /\ IF acq = "Ok"
       THEN /\ frame_index' = 1 - frame_index
            /\ calls' = FrameCalls(frame_index + 1, depth_texture, instances, obj_model)
            /\ result' = FrameResult(obj_model)
            /\ UNCHANGED surface
       ELSE /\ calls' = <<GetCurrentTexture(0)>>
                        \o (IF acq = "Lost" THEN <<SurfaceConfigure(config)>> ELSE <<>>)
            /\ result' = (IF acq = "Lost" THEN "Ok" ELSE acq)
            /\ surface' = (IF acq = "Lost" THEN config ELSE surface)
            /\ UNCHANGED frame_index
    /\ UNCHANGED <<size, config, depth_texture, cameraVars, instances, obj_model, grid>>

\* a render that handles SurfaceOutdated itself: reconfigures, acquires
\* again and completes the frame
RenderRetryOutdated(acq) ==
    /\ Running
    /\ lastCall' = [op |-> "render", w |-> 0, h |-> 0, acquire |-> acq]
    /\ lostStreak' = CountStreak(acq)
    /\ IF acq \in {"Ok", "Outdated"}
       THEN /\ frame_index' = 1 - frame_index
            /\ calls' = (IF acq = "Outdated"
                         THEN <<GetCurrentTexture(0), SurfaceConfigure(config)>>
                         ELSE <<>>)
                        \o FrameCalls(frame_index + 1, depth_texture, instances, obj_model)
            /\ result' = FrameResult(obj_model)
            /\ surface' = (IF acq = "Outdated" THEN config ELSE surface)
       ELSE /\ calls' = <<GetCurrentTexture(0)>>
            /\ result' = acq
            /\ UNCHANGED <<frame_index, surface>>
    /\ UNCHANGED <<size, config, depth_texture, cameraVars, instances, obj_model, grid>>

\* render, with acq the result of surface.get_current_texture()
Render(acq) ==
    /\ Running
    /\ lastCall' = [op |-> "render", w |-> 0, h |-> 0, acquire |-> acq]
    /\ lostStreak' = CountStreak(acq)
    /\ IF acq = "Ok"
       THEN /\ frame_index' = 1 - frame_index
            /\ calls' = FrameCalls(frame_index + 1, depth_texture, instances, obj_model)
            /\ result' = FrameResult(obj_model)
       ELSE /\ calls' = <<GetCurrentTexture(0)>>
            /\ result' = acq
            /\ UNCHANGED frame_index
    /\ UNCHANGED <<size, config, surface, depth_texture, cameraVars, instances,
                   obj_model, grid>>

(***************************************************************************)
(* State::input and State::update.                                         *)
(***************************************************************************)
MovementKeys == {"forward", "backward", "left", "right"}

\* the window events input is given: a key of the controller or another
\* key, pressed or released, or an event that is no key event
Events ==
    { [key |-> k, pressed |-> b] : k \in MovementKeys \cup {"other"}, b \in BOOLEAN }
    \cup { [key |-> "none", pressed |-> FALSE] }

\* CameraController::process_events: a movement key sets or clears its flag
\* and is consumed; every other event leaves the flags alone
ProcessEvents(ctrl, event) ==
    IF event.key \in MovementKeys
    THEN [ctrl EXCEPT ![event.key] = event.pressed]
    ELSE ctrl

Step(plus, minus) == (IF plus THEN 1 ELSE 0) - (IF minus THEN 1 ELSE 0)

\* CameraController::update_camera: the eye moves one step of speed along
\* the forward direction for forward / backward and along the right
\* direction for right / left; nothing else of the camera changes
UpdateCamera(ctrl, cam) ==
    [cam EXCEPT !.eye = <<cam.eye[1] + Step(ctrl.forward, ctrl.backward),
                          cam.eye[2] + Step(ctrl.right, ctrl.left)>>]

InReach(eye) == Abs(eye[1]) + Abs(eye[2]) <= MaxMove

\* queue.write_buffer(&self.camera_buffer, 0, ..)
WriteBuffer(id) == [Cmd("write_buffer") EXCEPT !.res = id]

camera_buffer_id == <<"camera_buffer", 0>>

Input(event) ==
    /\ Running
    /\ lastCall' = Call("input")
    /\ camera_controller' = ProcessEvents(camera_controller, event)
    /\ calls' = <<>>
    /\ result' = "none"
    /\ UNCHANGED <<size, config, surface, depth_texture, camera, camera_uniform,
                   camera_buffer, instances, obj_model, grid, frame_index,
                   lostStreak>>

\* an update that uploads the uniform it held before the controller moved
\* the camera
UpdateUploadsFirst ==
    /\ Running
    /\ InReach(UpdateCamera(camera_controller, camera).eye)
    /\ lastCall' = Call("update")
    /\ camera_buffer' = camera_uniform
    /\ camera' = UpdateCamera(camera_controller, camera)
    /\ camera_uniform' = UpdateViewProj(camera')
    /\ calls' = <<WriteBuffer(camera_buffer_id)>>
    /\ result' = "none"
    /\ UNCHANGED <<size, config, surface, depth_texture, camera_controller,
                   instances, obj_model, grid, frame_index, lostStreak>>

Update ==
    /\ Running
    /\ InReach(UpdateCamera(camera_controller, camera).eye)
    /\ lastCall' = Call("update")
    /\ camera' = UpdateCamera(camera_controller, camera)
    /\ camera_uniform' = UpdateViewProj(camera')
    /\ camera_buffer' = camera_uniform'
    /\ calls' = <<WriteBuffer(camera_buffer_id)>>
    /\ result' = "none"
    /\ UNCHANGED <<size, config, surface, depth_texture, camera_controller,
                   instances, obj_model, grid, frame_index, lostStreak>>

(***************************************************************************)
(* Specifications.                                                         *)
(***************************************************************************)
Next ==
    \/ \E w \in 0..MaxDim, h \in 0..MaxDim : Resize(w, h)
    \/ \E acq \in AcquireResults : Render(acq)

Spec == Init /\ [][Next]_vars

\* the State under all four handlers
NextAll ==
    \/ \E w \in 0..MaxDim, h \in 0..MaxDim : Resize(w, h)
    \/ \E acq \in AcquireResults : Render(acq)
    \/ \E event \in Events : Input(event)
    \/ Update

\* the State constructed on a 1x1 window with a model of one mesh; every
\* other size is reached by resize
InitAll ==
    /\ Init
    /\ size = <<1, 1>>
    /\ obj_model = Model(1, 1)

SpecAll == InitAll /\ [][NextAll]_vars

\* State::new at the point where the instance grid is about to be built,
\* for a grid of any number of rows and any spacing
InitGrid ==
    /\ NewUpToGrid(1, 1)
    /\ \E n \in 0..MaxRow, s \in 1..MaxSpace :
           grid = [rows |-> n, spacing |-> s, built |-> FALSE]
    /\ instances = <<>>
    /\ obj_model = NoModel

\* let instances = (0..N).flat_map(..).collect()
BuildGrid ==
    /\ ~grid.built
    /\ instances' = BuildInstances(grid.rows, grid.spacing)
    /\ grid' = [grid EXCEPT !.built = TRUE]
    /\ UNCHANGED <<size, config, surface, depth_texture, cameraVars, obj_model,
                   calls, lastCall, result, frame_index, lostStreak>>

NextGrid == BuildGrid

SpecGrid == InitGrid /\ [][NextGrid]_vars

(***************************************************************************)
(* Reading the call log of the last handler.                               *)
(***************************************************************************)
Positions(op) == { i \in 1..Len(calls) : calls[i].op = op }

Count(op) == Cardinality(Positions(op))

\* the position of the only call of op (when Count(op) = 1)
At(op) == CHOOSE i \in Positions(op) : TRUE

\* the draw calls of the log, in order
Draws == SelectSeq(calls, LAMBDA c : c.op = "draw_indexed")

\* the buffers of the State and of its model
AllBuffers ==
    {vertex_buffer, index_buffer, InstanceBuffer(instances)}
    \cup { obj_model.meshes[k].vertex_buffer : k \in 1..Len(obj_model.meshes) }
    \cup { obj_model.meshes[k].index_buffer : k \in 1..Len(obj_model.meshes) }

\* the buffer an id names
Resolve(id) == CHOOSE b \in AllBuffers : b.id = id

\* the buffer bound to vertex slot `slot` when call i is issued: that of the
\* last set_vertex_buffer of the slot before i
BoundVertexBuffer(i, slot) ==
    LET before == { j \in 1..(i - 1) :
                      calls[j].op = "set_vertex_buffer" /\ calls[j].slot = slot }
    IN IF before = {} THEN NoBuffer
       ELSE Resolve(calls[CHOOSE j \in before : \A k \in before : k <= j].res)

\* the index buffer bound when call i is issued
BoundIndexBuffer(i) ==
    LET before == { j \in 1..(i - 1) : calls[j].op = "set_index_buffer" }
    IN IF before = {} THEN NoBuffer
       ELSE Resolve(calls[CHOOSE j \in before : \A k \in before : k <= j].res)

\* the frame state a call puts the frame in
PhaseOf(op) ==
    CASE op \in {"get_current_texture", "create_view"} -> "Acquired"
      [] op = "submit" -> "Submitted"
      [] op = "present" -> "Presented"
      [] OTHER -> "Recording"

\* the frame states a log walks through, each listed once per visit
RECURSIVE PhasesFrom(_, _)
PhasesFrom(k, last) ==
    IF k > Len(calls) THEN <<>>
    ELSE LET ph == PhaseOf(calls[k].op)
         IN (IF ph = last THEN <<>> ELSE <<ph>>) \o PhasesFrom(k + 1, ph)

Phases == PhasesFrom(1, "Idle")

AfterRender == lastCall.op = "render"
RenderedOk == AfterRender /\ result = "Ok"
AfterResize(w, h) == lastCall.op = "resize" /\ lastCall.w = w /\ lastCall.h = h
AcceptedResize == lastCall.op = "resize" /\ lastCall.w > 0 /\ lastCall.h > 0
RejectedResize == lastCall.op = "resize" /\ (lastCall.w = 0 \/ lastCall.h = 0)

(***************************************************************************)
(* C1.  Right after a resize(w, h) with w > 0 and h > 0, from any state,   *)
(* the surface configuration has width w and height h, the stored size is  *)
(* (w, h) and the depth texture's extent is exactly (w, h).                *)
(***************************************************************************)
C1_ResizeSetsDimensions ==
    AcceptedResize =>
        /\ config.width = lastCall.w
        /\ config.height = lastCall.h
        /\ size = <<lastCall.w, lastCall.h>>
        /\ depth_texture.width = lastCall.w
        /\ depth_texture.height = lastCall.h

\* a 2x1 resize of a State that was constructed square
C1_Witness ==
    /\ AfterResize(2, 1)
    /\ camera.aspect = <<1, 1>>
    /\ depth_texture.width = 2 /\ depth_texture.height = 1

(***************************************************************************)
(* C2.  A resize(w, h) with w = 0 or h = 0 changes nothing: the surface    *)
(* configuration, the stored size and the depth texture stay as they were, *)
(* and the surface is not configured again.                                *)
(***************************************************************************)
C2_ZeroResizeIsNoOp ==
    [][ (lastCall'.op = "resize" /\ (lastCall'.w = 0 \/ lastCall'.h = 0))
        => /\ config' = config
           /\ size' = size
           /\ depth_texture' = depth_texture
           /\ surface' = surface
           /\ \A i \in 1..Len(calls') :
                 calls'[i].op \notin {"surface_configure", "create_depth_texture"} ]_vars

\* resize(0, 2) was called on a 1x2 surface, which still is 1x2
C2_Witness ==
    /\ AfterResize(0, 2)
    /\ config.width = 1 /\ config.height = 2
    /\ size = <<1, 2>>

(***************************************************************************)
(* C3.  After a resize(w, h) with w > 0 and h > 0 the camera's aspect      *)
(* ratio is w / h, the ratio of the current surface configuration.         *)
(***************************************************************************)
C3_CameraAspectFollowsResize ==
    AcceptedResize =>
        /\ camera.aspect = Ratio(lastCall.w, lastCall.h)
        /\ camera.aspect = Ratio(config.width, config.height)

C6_FrameOrder ==
    RenderedOk =>
        /\ Phases = <<"Acquired", "Recording", "Submitted", "Presented">>
        /\ \A op \in {"get_current_texture", "create_command_encoder",
                      "begin_render_pass", "end_render_pass", "finish",
                      "submit", "present"} : Count(op) = 1
        /\ At("get_current_texture") < At("create_command_encoder")
        /\ At("create_command_encoder") < At("begin_render_pass")
        /\ At("begin_render_pass") < At("end_render_pass")
        /\ \A i \in Positions("draw_indexed") :
              At("begin_render_pass") < i /\ i < At("end_render_pass")
        /\ At("end_render_pass") < At("finish")
        /\ At("finish") < At("submit")
        /\ At("submit") < At("present")
        /\ calls[At("present")].tex = calls[At("get_current_texture")].tex
        /\ calls[At("begin_render_pass")].tex = calls[At("get_current_texture")].tex

\* the second frame of a run, presented on the second swapchain image
C6_Witness ==
    /\ RenderedOk
    /\ calls[Len(calls)].op = "present"
    /\ calls[Len(calls)].tex = 2
    /\ Len(obj_model.meshes) = 2

(***************************************************************************)
(* C7.  A rendered frame issues exactly one indexed draw per mesh of the   *)
(* model, in the model's mesh order, each over the instance range          *)
(* [0, number of instances), and no other draw.                            *)
(***************************************************************************)
C7_OneDrawPerMesh ==
    RenderedOk =>
        /\ Len(Draws) = Len(obj_model.meshes)
        /\ \A k \in 1..Len(Draws) :
              k <= Len(obj_model.meshes) =>
                  /\ Draws[k].count = obj_model.meshes[k].num_elements
                  /\ Draws[k].inst = Len(instances)

(***************************************************************************)
(* C8.  At every indexed draw of render, vertex slot 0 holds vertices in   *)
(* the position / tex_coords / normal layout at the stride the pipeline    *)
(* declares for slot 0, slot 1 holds the instance buffer, and every index  *)
(* drawn addresses a vertex that lies inside the slot-0 buffer at that     *)
(* stride.                                                                 *)
(***************************************************************************)
C8_DrawsMatchPipelineLayout ==
    RenderedOk =>
        \A i \in Positions("draw_indexed") :
            LET slot0 == BoundVertexBuffer(i, 0)
                slot1 == BoundVertexBuffer(i, 1)
                ibuf == BoundIndexBuffer(i)
                stride == PipelineBuffers[1].array_stride
            IN /\ slot0.contents = PipelineBuffers[1].contents
               /\ slot0.elem = stride
               /\ slot1 = InstanceBuffer(instances)
               /\ calls[i].count <= Len(ibuf.data)
               /\ \A k \in 1..calls[i].count :
                     k <= Len(ibuf.data) =>
                         (ibuf.data[k] + 1) * stride <= BufferBytes(slot0)

(***************************************************************************)
(* C9.  The grid built for N instances per row and spacing S has exactly   *)
(* N * N entries with pairwise distinct positions, in row-major order: the *)
(* entry at list index z * N + x (0-based) has position                    *)
(* (S * (x - N/2), 0, S * (z - N/2)).  (Positions are stored doubled.)     *)
(***************************************************************************)
C9_GridLayout ==
    grid.built =>
        LET N == grid.rows
            S == grid.spacing
        IN /\ Len(instances) = N * N
           /\ \A i, j \in 1..Len(instances) :
                 i # j => instances[i].position # instances[j].position
           /\ \A z \in 0..(N - 1), x \in 0..(N - 1) :
                 instances[z * N + x + 1].position
                     = <<2 * S * x - S * N, 0, 2 * S * z - S * N>>

\* the program's own grid: 10 rows, spacing 3, 100 entries, the second one
\* a step of 3 along x from the corner (-15, 0, -15)
C9_Witness ==
    /\ grid.built
    /\ grid.rows = NUM_INSTANCES_PER_ROW
    /\ grid.spacing = SPACE_BETWEEN
    /\ Len(instances) = 100
    /\ instances[1].position = <<-30, 0, -30>>
    /\ instances[2].position = <<-24, 0, -30>>

(***************************************************************************)
(* C10.  In the built grid the entry for grid cell (0, 0), the first entry *)
(* of the list, has the identity rotation.                                 *)
(***************************************************************************)
C10_FirstEntryIdentity ==
    (grid.built /\ grid.rows >= 1) => instances[1].rotation = IdentityRotation

(***************************************************************************)
(* C10, as amended.  In the built grid the entry with the identity         *)
(* rotation is the one at the origin: grid cell (N/2, N/2), list index     *)
(* (N/2) * N + N/2 (0-based), which exists when N is even.  The entry for  *)
(* grid cell (0, 0), the first of the list, lies at                        *)
(* (-S * N/2, 0, -S * N/2) and has the 45 degree rotation about its        *)
(* normalized position, the direction (-1, 0, -1).                         *)
(***************************************************************************)
C10_OriginEntryIdentity ==
    grid.built =>
        LET N == grid.rows
            h == grid.rows \div 2
        IN /\ (N >= 2 /\ N % 2 = 0) =>
                 /\ instances[h * N + h + 1].position = ZeroVector
                 /\ instances[h * N + h + 1].rotation = IdentityRotation
           /\ N >= 1 =>
                 /\ instances[1].position = <<-(grid.spacing * N), 0, -(grid.spacing * N)>>
                 /\ instances[1].rotation
                        = [angle |-> 45, axis |-> <<-1, 0, -1>>, nan |-> FALSE]

\* the program's own grid: entry 55 (0-based) is at the origin and has the
\* identity rotation, entry 0 has not
C10_Witness ==
    /\ grid.built
    /\ grid.rows = NUM_INSTANCES_PER_ROW
    /\ grid.spacing = SPACE_BETWEEN
    /\ instances[56].position = ZeroVector
    /\ instances[56].rotation = IdentityRotation
    /\ instances[1].rotation.angle = 45


AfterUpdate == lastCall.op = "update"

(***************************************************************************)
(* C11.  Every update writes the camera uniform to the camera buffer once, *)
(* whether or not the camera moved, and what it writes is the view         *)
(* projection of the camera as it is after the controller's move of that   *)
(* same call: move, recompute, upload.                                     *)
(***************************************************************************)
C11_UpdateUploadsFreshUniform ==
    [][ lastCall'.op = "update"
        => /\ camera' = UpdateCamera(camera_controller, camera)
           /\ camera_uniform' = UpdateViewProj(camera')
           /\ camera_buffer' = UpdateViewProj(camera')
           /\ calls' = <<WriteBuffer(camera_buffer_id)>> ]_vars

\* an update with the forward key held has moved the eye and uploaded the
\* uniform of the moved camera
C11_Witness ==
    /\ AfterUpdate
    /\ camera_controller.forward /\ ~camera_controller.backward
    /\ camera.eye = <<1, 0>>
    /\ camera_buffer.view_proj.eye = <<1, 0>>
    /\ Count("write_buffer") = 1


\* axis is the direction of position: position is a positive multiple of it
SameDirection(position, axis) ==
    /\ axis # ZeroVector
    /\ \E g \in 1..(Abs(position[1]) + Abs(position[2]) + Abs(position[3])) :
           \A k \in 1..3 : position[k] = g * axis[k]

(***************************************************************************)
(* C12.  In the built grid an entry has the identity rotation (angle 0)    *)
(* if and only if its position is the zero vector; every other entry has   *)
(* a 45 degree rotation about the direction of its position.  No entry's   *)
(* rotation comes from normalizing the zero vector.                        *)
(***************************************************************************)
C12_IdentityIffZeroPosition ==
    grid.built =>
        \A i \in 1..Len(instances) :
            LET position == instances[i].position
                rotation == instances[i].rotation
            IN /\ ~rotation.nan
               /\ (rotation = IdentityRotation) <=> (position = ZeroVector)
               /\ rotation.angle = 0 <=> position = ZeroVector
               /\ position # ZeroVector =>
                      /\ rotation.angle = 45
                      /\ SameDirection(position, rotation.axis)
                      /\ rotation.axis = Normalize(position).dir

\* a 4 x 4 grid: cell (2, 2) is at the origin with the identity rotation,
\* its neighbour (3, 2) is rotated about the x axis
C12_Witness ==
    /\ grid.built
    /\ grid.rows = 4
    /\ Len(instances) = 16
    /\ instances[11].position = ZeroVector
    /\ instances[11].rotation = IdentityRotation
    /\ instances[12].position # ZeroVector
    /\ instances[12].rotation = [angle |-> 45, axis |-> <<1, 0, 0>>, nan |-> FALSE]


(***************************************************************************)
(* C13.  In every state reachable from construction by resize (zero-size   *)
(* ones included), input, update and render calls, the depth texture's     *)
(* extent equals the surface configuration's (width, height), which equals *)
(* the stored size.                                                        *)
(***************************************************************************)
C13_DepthMatchesConfigAndSize ==
    /\ depth_texture.width = config.width
    /\ depth_texture.height = config.height
    /\ size = <<config.width, config.height>>
    /\ size[1] > 0 /\ size[2] > 0

\* the window went from 1x1 to 2x1, the camera was moved, a frame was lost,
\* and a resize(0, 2) has just been refused
C13_Witness ==
    /\ AfterResize(0, 2)
    /\ size = <<2, 1>>
    /\ depth_texture.width = 2 /\ depth_texture.height = 1
    /\ camera.eye # <<0, 0>>
    /\ lostStreak > 0


\* an accepted resize made each of its two wgpu calls once, at the new size
ResizeCallsBoth ==
    /\ Count("surface_configure") = 1
    /\ Count("create_depth_texture") = 1
    /\ \A i \in 1..Len(calls) : calls[i].dims = <<lastCall.w, lastCall.h>>

(***************************************************************************)
(* C14.  Within an accepted resize the new configuration is applied to the *)
(* surface first and the depth texture is recreated after it, never before *)
(* it.                                                                     *)
(***************************************************************************)
C14_ConfigureBeforeDepthTexture ==
    AcceptedResize =>
        /\ ResizeCallsBoth
        /\ At("surface_configure") < At("create_depth_texture")

(***************************************************************************)
(* C14, as amended.  Within an accepted resize the stored size and the     *)
(* configuration take the new dimensions, then the depth texture is        *)
(* recreated from the updated configuration, and the surface is            *)
(* configured last; both calls are made, once each, before resize returns. *)
(***************************************************************************)
C14_DepthTextureBeforeConfigure ==
    AcceptedResize =>
        /\ ResizeCallsBoth
        /\ At("create_depth_texture") < At("surface_configure")
        /\ calls[Len(calls)].op = "surface_configure"
        /\ surface = config

\* a 1x2 resize: depth texture first, surface.configure second
C14_Witness ==
    /\ AfterResize(1, 2)
    /\ Len(calls) = 2
    /\ calls[1] = CreateDepthTexture(config)
    /\ calls[2] = SurfaceConfigure(config)


(***************************************************************************)
(* C15.  When the frame acquisition in render fails, with whatever surface *)
(* error, render returns that error and does nothing else: no command      *)
(* encoder, no render pass, no submission, no present, and the surface     *)
(* configuration, the depth texture and the camera state are as before.    *)
(***************************************************************************)
C15_FailedAcquireHasNoEffect ==
    [][ (lastCall'.op = "render" /\ lastCall'.acquire # "Ok")
        => /\ result' = lastCall'.acquire
           /\ calls' = <<GetCurrentTexture(0)>>
           /\ \A i \in 1..Len(calls') :
                 calls'[i].op \notin {"create_view", "create_command_encoder",
                                      "begin_render_pass", "draw_indexed",
                                      "finish", "submit", "present",
                                      "surface_configure", "write_buffer"}
           /\ config' = config
           /\ surface' = surface
           /\ size' = size
           /\ depth_texture' = depth_texture
           /\ cameraVars' = cameraVars
           /\ frame_index' = frame_index ]_vars

\* the camera was moved and the window resized to 1x2; the acquisition then
\* failed with OutOfMemory, which is what render returned
C15_Witness ==
    /\ AfterRender
    /\ lastCall.acquire = "OutOfMemory"
    /\ result = "OutOfMemory"
    /\ calls = <<GetCurrentTexture(0)>>
    /\ camera.eye # <<0, 0>>
    /\ camera_buffer = UpdateViewProj(camera)
    /\ size = <<1, 2>>
    /\ depth_texture.height = 2


\* every mesh of the model names a material the model has (0-based index)
MaterialsInRange(model) ==
    \A i \in 1..Len(model.meshes) :
        model.meshes[i].material \in 0..(Len(model.materials) - 1)

(***************************************************************************)
(* C16.  For every loaded model whose meshes all name a material in range, *)
(* a model of no meshes included, a render whose acquisition succeeded     *)
(* runs to its end: it indexes neither the mesh list nor the material list *)
(* out of bounds, and returns Ok after presenting the frame.               *)
(***************************************************************************)
C16_RenderStaysInBounds ==
    (AfterRender /\ lastCall.acquire = "Ok" /\ MaterialsInRange(obj_model))
        => /\ result # "panic"
           /\ result = "Ok"
           /\ Count("present") = 1

====
